---- MODULE Spec2Model ----
(***************************************************************************)
(* Model of the nginpay toy payments engine (src/src/main.rs).             *)
(*                                                                         *)
(* The program reads raw CSV rows one at a time, converts each into a      *)
(* domain transaction (into_tx / TryFrom<TxRow> for Tx), and folds run_tx  *)
(* over the transactions that converted, starting from State::default().   *)
(*                                                                         *)
(* Amounts are BigDecimal values in the program: exact decimals.  Here an  *)
(* amount is an integer count of units of 10^-FracDigits, which is exact   *)
(* for every input string with at most FracDigits fractional digits.       *)
(***************************************************************************)
EXTENDS Integers, Sequences, FiniteSets, TLC

(* ------------------------------ bounds -------------------------------- *)

\* Number of raw rows the reader yields before the input ends.
MaxRows == 3
\* Client ids are 1..MaxClient (u16 in the program).
MaxClient == 2
\* Transaction ids are 1..MaxTx (u32 in the program).
MaxTx == 2
\* Fractional digits carried by the integer representation of an amount.
FracDigits == 1

Clients == 1..MaxClient
TxIds == 1..MaxTx

(* --------------------------- Option values ---------------------------- *)

None == [some |-> FALSE]
Some(v) == [some |-> TRUE, val |-> v]

(* ------------------------------ raw rows ------------------------------ *)

\* enum TxRowType, in its serialized (lowercase) form
TxRowType == {"deposit", "withdrawal", "dispute", "resolve", "chargeback"}
MoneyTypes == {"deposit", "withdrawal"}
RefTypes == TxRowType \ MoneyTypes

\* The strings that occur in the amount column: an integer, a decimal with
\* a fraction, a negative number and a text that is no number.
AmountStrings ==
    { <<"1">>, <<"1", ".", "5">>, <<"-", "1">>, <<"x">> }

\* struct TxRow, for the two types that read the amount column.
MoneyRows ==
    [ ok : {TRUE}, tx_row_type : MoneyTypes,
      client_id : Clients, tx_id : TxIds,
      amount : {None} \cup { Some(s) : s \in AmountStrings } ]

\* struct TxRow, for the three types that ignore the amount column.
RefRows ==
    [ ok : {TRUE}, tx_row_type : RefTypes,
      client_id : Clients, tx_id : TxIds,
      amount : {None, Some(<<"1">>)} ]

\* A row the reader could not read or deserialize: Result::Err.
ErrRow == [ok |-> FALSE]

\* Result<TxRow>: what the reader yields for one line of input.
Rows == MoneyRows \cup RefRows \cup {ErrRow}

(* ------------------------- BigDecimal::from_str ----------------------- *)

DigitChars == <<"0", "1", "2", "3", "4", "5", "6", "7", "8", "9">>

IsDigit(ch) == \E i \in 1..10 : DigitChars[i] = ch

DigitVal(ch) == (CHOOSE i \in 1..10 : DigitChars[i] = ch) - 1

RECURSIVE Pow10(_)
Pow10(n) == IF n = 0 THEN 1 ELSE 10 * Pow10(n - 1)

\* Value of a sequence of digit characters, most significant first.
RECURSIVE DigitsValue(_)
DigitsValue(ds) ==
    IF ds = <<>> THEN 0
    ELSE 10 * DigitsValue(SubSeq(ds, 1, Len(ds) - 1)) + DigitVal(ds[Len(ds)])

\* The text without its dots.
RECURSIVE StripDots(_)
StripDots(s) ==
    IF s = <<>> THEN <<>>
    ELSE IF Head(s) = "." THEN StripDots(Tail(s))
    ELSE <<Head(s)>> \o StripDots(Tail(s))

\* Number of characters after the first dot (0 when there is none).
FracLen(s) ==
    IF \E i \in 1..Len(s) : s[i] = "."
    THEN Len(s) - (CHOOSE i \in 1..Len(s) :
                      s[i] = "." /\ \A j \in 1..(i - 1) : s[j] # ".")
    ELSE 0

\* BigDecimal::from_str on a text without exponent: an optional sign, then
\* digits with at most one dot among them and at least one digit.  The
\* result is Some(value in units of 10^-FracDigits) or None for a parse
\* error.  Every text of AmountStrings has at most FracDigits fractional
\* digits, so the value is exact.
ParseDecimal(s) ==
    LET neg == s # <<>> /\ Head(s) = "-"
        signed == s # <<>> /\ Head(s) \in {"-", "+"}
        body == IF signed THEN Tail(s) ELSE s
        dots == Cardinality({i \in 1..Len(body) : body[i] = "."})
        digits == StripDots(body)
        frac == FracLen(body)
    IN  IF /\ digits # <<>>
           /\ dots <= 1
           /\ \A i \in 1..Len(digits) : IsDigit(digits[i])
        THEN Some((IF neg THEN -1 ELSE 1)
                  * DigitsValue(digits) * Pow10(FracDigits - frac))
        ELSE None

(* ----------------------- TryFrom<TxRow> for Tx ------------------------ *)

\* struct Tx with enum TxType: only Deposit and Withdrawal carry an amount.
MkTx(kind, client_id, tx_id) ==
    [tx_type |-> [kind |-> kind], client_id |-> client_id, tx_id |-> tx_id]

MkMoneyTx(kind, amount, client_id, tx_id) ==
    [tx_type |-> [kind |-> kind, amount |-> amount],
     client_id |-> client_id, tx_id |-> tx_id]

\* try_from that takes a missing amount for zero and demands an amount of
\* the three types that have none.
try_from_AmountEverywhere(tx_row) ==
    LET t == tx_row.tx_row_type
        a == tx_row.amount
        kind == CASE t = "deposit" -> "Deposit"
                  [] t = "withdrawal" -> "Withdrawal"
                  [] t = "dispute" -> "Dispute"
                  [] t = "resolve" -> "Resolve"
                  [] t = "chargeback" -> "Chargeback"
    IN  IF t \in MoneyTypes
        THEN IF ~a.some
             THEN Some(MkMoneyTx(kind, 0, tx_row.client_id, tx_row.tx_id))
             ELSE IF ParseDecimal(a.val).some
                  THEN Some(MkMoneyTx(kind, ParseDecimal(a.val).val,
                                      tx_row.client_id, tx_row.tx_id))
                  ELSE None
        ELSE IF a.some
             THEN Some(MkTx(kind, tx_row.client_id, tx_row.tx_id))
             ELSE None

\* try_from: Some(tx) for Ok(tx), None for Err.
try_from(tx_row) ==
    LET t == tx_row.tx_row_type
        a == tx_row.amount
    IN  CASE t = "deposit" /\ a.some ->
               IF ParseDecimal(a.val).some
               THEN Some(MkMoneyTx("Deposit", ParseDecimal(a.val).val,
                                   tx_row.client_id, tx_row.tx_id))
               ELSE None
          [] t = "deposit" /\ ~a.some -> None
          [] t = "withdrawal" /\ a.some ->
               IF ParseDecimal(a.val).some
               THEN Some(MkMoneyTx("Withdrawal", ParseDecimal(a.val).val,
                                   tx_row.client_id, tx_row.tx_id))
               ELSE None
          [] t = "withdrawal" /\ ~a.some -> None
          [] t = "dispute" -> Some(MkTx("Dispute", tx_row.client_id, tx_row.tx_id))
          [] t = "resolve" -> Some(MkTx("Resolve", tx_row.client_id, tx_row.tx_id))
          [] t = "chargeback" ->
               Some(MkTx("Chargeback", tx_row.client_id, tx_row.tx_id))

\* into_tx: an unreadable row or a failed conversion is logged and dropped.
into_tx(tx_row) ==
    IF tx_row.ok THEN try_from(tx_row) ELSE None

(* ------------------------------- Account ------------------------------ *)

\* Account::default(): BigDecimal::default() is zero, bool::default() false.
Account_default == [available |-> 0, held |-> 0, total |-> 0, locked |-> FALSE]

\* The result of one arm of Account::run: the account and the amounts map
\* as the arm leaves them, and the error! diagnostic it logged, if any.
Ran(account, amts, diag) == [account |-> account, amounts |-> amts, diag |-> diag]

\* HashMap::insert: adds the key or overwrites its value.
Insert(map, k, v) == (k :> v) @@ map

\* RunDeposit with the total left alone.
RunDeposit_NoTotal(self, amts, tx_id, amount) ==
    Ran([self EXCEPT !.available = @ + amount],
        Insert(amts, tx_id, amount), "none")

\* RunDeposit that keeps the amount first recorded for a tx id.
RunDeposit_KeepsFirst(self, amts, tx_id, amount) ==
    Ran([self EXCEPT !.available = @ + amount, !.total = @ + amount],
        IF tx_id \in DOMAIN amts THEN amts ELSE Insert(amts, tx_id, amount),
        "none")

\* RunDeposit that starts the record of amounts afresh.
RunDeposit_ForgetsOthers(self, amts, tx_id, amount) ==
    Ran([self EXCEPT !.available = @ + amount, !.total = @ + amount],
        (tx_id :> amount), "none")

\* TxType::Deposit(amount)
RunDeposit(self, amts, tx_id, amount) ==
    Ran([self EXCEPT !.available = @ + amount, !.total = @ + amount],
        Insert(amts, tx_id, amount), "none")

\* RunWithdrawal that records the amount without the minus sign.
RunWithdrawal_RecordsUnsigned(self, amts, tx_id, amount) ==
    IF self.available < amount
    THEN Ran(self, amts, "insufficient")
    ELSE Ran([self EXCEPT !.available = @ - amount, !.total = @ - amount],
             Insert(amts, tx_id, amount), "none")

\* RunWithdrawal that refuses to take funds out of a locked account.
RunWithdrawal_RefusesLocked(self, amts, tx_id, amount) ==
    IF self.locked \/ self.available < amount
    THEN Ran(self, amts, "insufficient")
    ELSE Ran([self EXCEPT !.available = @ - amount, !.total = @ - amount],
             Insert(amts, tx_id, -amount), "none")

\* RunWithdrawal comparing the amount with total instead of available.
RunWithdrawal_ChecksTotal(self, amts, tx_id, amount) ==
    IF self.total < amount
    THEN Ran(self, amts, "insufficient")
    ELSE Ran([self EXCEPT !.available = @ - amount, !.total = @ - amount],
             Insert(amts, tx_id, -amount), "none")

\* RunWithdrawal refusing a withdrawal of exactly the available funds.
RunWithdrawal_Strict(self, amts, tx_id, amount) ==
    IF self.available <= amount
    THEN Ran(self, amts, "insufficient")
    ELSE Ran([self EXCEPT !.available = @ - amount, !.total = @ - amount],
             Insert(amts, tx_id, -amount), "none")

\* TxType::Withdrawal(amount)
RunWithdrawal(self, amts, tx_id, amount) ==
    IF self.available < amount
    THEN Ran(self, amts, "insufficient")
    ELSE Ran([self EXCEPT !.available = @ - amount, !.total = @ - amount],
             Insert(amts, tx_id, -amount), "none")

\* RunDispute that takes the amount from available and forgets to hold it.
RunDispute_NoHeld(self, amts, tx_id) ==
    IF tx_id \in DOMAIN amts
    THEN Ran([self EXCEPT !.available = @ - amts[tx_id]], amts, "none")
    ELSE Ran(self, amts, "unknown")

\* RunDispute that also takes the amount from total, as a chargeback does.
RunDispute_CutsTotal(self, amts, tx_id) ==
    IF tx_id \in DOMAIN amts
    THEN Ran([self EXCEPT !.available = @ - amts[tx_id],
                          !.held = @ + amts[tx_id],
                          !.total = @ - amts[tx_id]], amts, "none")
    ELSE Ran(self, amts, "unknown")

\* RunDispute that turns away a dispute while the account holds funds.
RunDispute_OnceOnly(self, amts, tx_id) ==
    IF tx_id \in DOMAIN amts /\ self.held = 0
    THEN Ran([self EXCEPT !.available = @ - amts[tx_id],
                          !.held = @ + amts[tx_id]], amts, "none")
    ELSE Ran(self, amts, "unknown")

\* TxType::Dispute
RunDispute(self, amts, tx_id) ==
    IF tx_id \in DOMAIN amts
    THEN Ran([self EXCEPT !.available = @ - amts[tx_id],
                          !.held = @ + amts[tx_id]], amts, "none")
    ELSE Ran(self, amts, "unknown")

\* RunResolve that also lifts the lock.
RunResolve_Unlocks(self, amts, tx_id) ==
    IF tx_id \in DOMAIN amts
    THEN Ran([self EXCEPT !.available = @ + amts[tx_id],
                          !.held = @ - amts[tx_id],
                          !.locked = FALSE], amts, "none")
    ELSE Ran(self, amts, "unknown")

\* RunResolve with the signs of the Dispute arm.
RunResolve_AsDispute(self, amts, tx_id) ==
    IF tx_id \in DOMAIN amts
    THEN Ran([self EXCEPT !.available = @ - amts[tx_id],
                          !.held = @ + amts[tx_id]], amts, "none")
    ELSE Ran(self, amts, "unknown")

\* TxType::Resolve
RunResolve(self, amts, tx_id) ==
    IF tx_id \in DOMAIN amts
    THEN Ran([self EXCEPT !.available = @ + amts[tx_id],
                          !.held = @ - amts[tx_id]], amts, "none")
    ELSE Ran(self, amts, "unknown")

\* RunChargeback that takes the charged-back tx id off the record.
RunChargeback_Forgets(self, amts, tx_id) ==
    IF tx_id \in DOMAIN amts
    THEN Ran([self EXCEPT !.held = @ - amts[tx_id],
                          !.total = @ - amts[tx_id],
                          !.locked = TRUE],
             [t \in DOMAIN amts \ {tx_id} |-> amts[t]], "none")
    ELSE Ran(self, amts, "unknown")

\* RunChargeback that gives the held funds back to available.
RunChargeback_Refunds(self, amts, tx_id) ==
    IF tx_id \in DOMAIN amts
    THEN Ran([self EXCEPT !.available = @ + amts[tx_id],
                          !.held = @ - amts[tx_id],
                          !.locked = TRUE], amts, "none")
    ELSE Ran(self, amts, "unknown")

\* RunChargeback that locks the account before it looks the tx id up.
RunChargeback_LocksFirst(self, amts, tx_id) ==
    IF tx_id \in DOMAIN amts
    THEN Ran([self EXCEPT !.held = @ - amts[tx_id],
                          !.total = @ - amts[tx_id],
                          !.locked = TRUE], amts, "none")
    ELSE Ran([self EXCEPT !.locked = TRUE], amts, "unknown")

\* TxType::Chargeback
RunChargeback(self, amts, tx_id) ==
    IF tx_id \in DOMAIN amts
    THEN Ran([self EXCEPT !.held = @ - amts[tx_id],
                          !.total = @ - amts[tx_id],
                          !.locked = TRUE], amts, "none")
    ELSE Ran(self, amts, "unknown")

\* Account::run: dispatch on the transaction's type.
Account_run(self, amts, tx) ==
    LET k == tx.tx_type.kind
    IN  CASE k = "Deposit" -> RunDeposit(self, amts, tx.tx_id, tx.tx_type.amount)
          [] k = "Withdrawal" ->
               RunWithdrawal(self, amts, tx.tx_id, tx.tx_type.amount)
          [] k = "Dispute" -> RunDispute(self, amts, tx.tx_id)
          [] k = "Resolve" -> RunResolve(self, amts, tx.tx_id)
          [] k = "Chargeback" -> RunChargeback(self, amts, tx.tx_id)

(* -------------------------------- State ------------------------------- *)

\* The empty HashMap.
EmptyMap == [k \in {} |-> 0]

\* State::default()
State_default == [accounts |-> EmptyMap, amounts |-> EmptyMap]

\* The account run_tx hands to Account::run: the client's existing one, or
\* a fresh default one.
AccountFor(accts, client_id) ==
    IF client_id \in DOMAIN accts THEN accts[client_id] ELSE Account_default

\* run_tx that keeps no account but the one of the transaction's client.
run_tx_OnlyThisAccount(state, tx) ==
    LET r == Account_run(AccountFor(state.accounts, tx.client_id),
                         state.amounts, tx)
    IN  [accounts |-> (tx.client_id :> r.account),
         amounts |-> r.amounts,
         diag |-> r.diag]

\* run_tx that stores the account only when the transaction was applied.
run_tx_InsertIfApplied(state, tx) ==
    LET r == Account_run(AccountFor(state.accounts, tx.client_id),
                         state.amounts, tx)
    IN  [accounts |-> IF r.diag = "none"
                      THEN Insert(state.accounts, tx.client_id, r.account)
                      ELSE state.accounts,
         amounts |-> r.amounts,
         diag |-> r.diag]

\* run_tx: the fold's step.  The account is stored under the client id in
\* both branches: mutated in place, or inserted after the run.  diag is the
\* diagnostic Account::run logged on the way.
run_tx(state, tx) ==
    LET r == Account_run(AccountFor(state.accounts, tx.client_id),
                         state.amounts, tx)
    IN  [accounts |-> Insert(state.accounts, tx.client_id, r.account),
         amounts |-> r.amounts,
         diag |-> r.diag]

(* ---------------------------- the fold in main ------------------------ *)

VARIABLES
    accounts,        \* State.accounts: client id -> Account
    amounts,         \* State.amounts: tx id -> signed amount
    pc,              \* "next": the fold asks the reader for a row;
                     \* "ran": the row has been handled;
                     \* "done": the reader is exhausted, accounts are printed
    nrows,           \* rows read so far
    last,            \* at "ran": Some of the row just handled, the transaction
                     \* it converted to and the diagnostic logged; else None
    prev,            \* at "ran": the State before the row was handled
    disputed,        \* Some of the client id, tx id and account before, when
                     \* the row handled before this one was an applied dispute
    constructed_clients, \* client ids of the transactions into_tx passed on
    applied_clients, \* clients with a transaction that ran without diagnostic
    shards,          \* None, or Some of the State per client that the fold
                     \* reaches on that client's transactions alone
    introduced,      \* with shards: tx id -> client id of the deposit or
                     \* withdrawal that brought the id into the stream
    charged_clients  \* clients with a chargeback that ran without diagnostic

vars == <<accounts, amounts, pc, nrows, last, prev, disputed,
          constructed_clients, applied_clients, shards, introduced,
          charged_clients>>

\* The State the fold carries.
Cur == [accounts |-> accounts, amounts |-> amounts]

Init ==
    /\ accounts = State_default.accounts
    /\ amounts = State_default.amounts
    /\ pc = "next"
    /\ nrows = 0
    /\ last = None
    /\ prev = State_default
    /\ disputed = None
    /\ constructed_clients = {}
    /\ applied_clients = {}
    /\ shards = None
    /\ introduced = EmptyMap
    /\ charged_clients = {}

\* The same start, with an empty State per client beside the fold's.
ShardedInit ==
    /\ accounts = State_default.accounts
    /\ amounts = State_default.amounts
    /\ pc = "next"
    /\ nrows = 0
    /\ last = None
    /\ prev = State_default
    /\ disputed = None
    /\ constructed_clients = {}
    /\ applied_clients = {}
    /\ shards = Some([c \in Clients |-> State_default])
    /\ introduced = EmptyMap
    /\ charged_clients = {}

\* Well-formed input: a deposit or withdrawal brings a tx id the stream has
\* not used for one before; a dispute, resolve or chargeback carries the
\* client id of the deposit or withdrawal that brought its tx id, or its tx
\* id is not on record.
WellFormed(tx) ==
    IF tx.tx_type.kind \in {"Deposit", "Withdrawal"}
    THEN tx.tx_id \notin DOMAIN introduced
    ELSE \/ tx.tx_id \notin DOMAIN amounts
         \/ /\ tx.tx_id \in DOMAIN introduced
            /\ introduced[tx.tx_id] = tx.client_id

\* With shards, the input is well-formed and the transaction also runs on
\* the State of its client's shard.
Sharded(tx) ==
    IF shards.some
    THEN /\ WellFormed(tx)
         /\ shards' =
              Some([shards.val EXCEPT ![tx.client_id] =
                      [accounts |-> run_tx(@, tx).accounts,
                       amounts |-> run_tx(@, tx).amounts]])
         /\ introduced' =
              IF tx.tx_type.kind \in {"Deposit", "Withdrawal"}
              THEN Insert(introduced, tx.tx_id, tx.client_id)
              ELSE introduced
    ELSE UNCHANGED <<shards, introduced>>

\* The rows filter_map(into_tx) drops, and the rows it passes on, each with
\* the transaction it passes.
SkippedRows == { row \in Rows : ~into_tx(row).some }
ConvertedRows == { [row |-> row, tx |-> into_tx(row).val] :
                     row \in { r \in Rows : into_tx(r).some } }

\* filter_map(into_tx) yields nothing for the row: the fold does not see it.
SkipRow ==
    /\ pc = "next"
    /\ nrows < MaxRows
    /\ \E row \in SkippedRows :
         last' = Some([row |-> row, tx |-> None, diag |-> "convert"])
    /\ nrows' = nrows + 1
    /\ prev' = Cur
    /\ pc' = "ran"
    /\ UNCHANGED <<accounts, amounts, disputed, constructed_clients,
                   applied_clients, shards, introduced,
                   charged_clients>>

\* RunTx in a fold that gives up at the first transaction Account::run
\* drops (a try_fold that propagates the diagnostic as an error).
RunTx_AbortsOnDrop ==
    /\ pc = "next"
    /\ nrows < MaxRows
    /\ \E c \in ConvertedRows :
         LET next == run_tx(Cur, c.tx)
         IN  /\ accounts' = next.accounts
             /\ amounts' = next.amounts
             /\ last' = Some([row |-> c.row, tx |-> Some(c.tx), diag |-> next.diag])
             /\ constructed_clients' = constructed_clients \cup {c.tx.client_id}
             /\ applied_clients' =
                  IF next.diag = "none"
                  THEN applied_clients \cup {c.tx.client_id}
                  ELSE applied_clients
             /\ Sharded(c.tx)
             /\ charged_clients' =
                  IF c.tx.tx_type.kind = "Chargeback" /\ next.diag = "none"
                  THEN charged_clients \cup {c.tx.client_id}
                  ELSE charged_clients
             /\ pc' = IF next.diag = "none" THEN "ran" ELSE "done"
    /\ nrows' = nrows + 1
    /\ prev' = Cur
    /\ UNCHANGED disputed

\* filter_map(into_tx) yields a transaction: the fold applies run_tx to it.
RunTx ==
    /\ pc = "next"
    /\ nrows < MaxRows
    /\ \E c \in ConvertedRows :
         LET next == run_tx(Cur, c.tx)
         IN  /\ accounts' = next.accounts
             /\ amounts' = next.amounts
             /\ last' = Some([row |-> c.row, tx |-> Some(c.tx), diag |-> next.diag])
             /\ constructed_clients' = constructed_clients \cup {c.tx.client_id}
             /\ applied_clients' =
                  IF next.diag = "none"
                  THEN applied_clients \cup {c.tx.client_id}
                  ELSE applied_clients
             /\ Sharded(c.tx)
             /\ charged_clients' =
                  IF c.tx.tx_type.kind = "Chargeback" /\ next.diag = "none"
                  THEN charged_clients \cup {c.tx.client_id}
                  ELSE charged_clients
    /\ nrows' = nrows + 1
    /\ prev' = Cur
    /\ pc' = "ran"
    /\ UNCHANGED disputed

\* The row just handled was a dispute that Account::run applied.
AppliedDispute(l) ==
    /\ l.some
    /\ l.val.tx.some
    /\ l.val.tx.val.tx_type.kind = "Dispute"
    /\ l.val.diag = "none"

\* The fold goes back to the reader: the row and its transaction are gone.
NextRow ==
    /\ pc = "ran"
    /\ pc' = "next"
    /\ disputed' =
         IF AppliedDispute(last)
         THEN Some([client_id |-> last.val.tx.val.client_id,
                    tx_id |-> last.val.tx.val.tx_id,
                    before |-> AccountFor(prev.accounts,
                                          last.val.tx.val.client_id)])
         ELSE None
    /\ last' = None
    /\ prev' = State_default
    /\ UNCHANGED <<accounts, amounts, nrows, constructed_clients,
                   applied_clients, shards, introduced,
                   charged_clients>>

\* The reader is exhausted: the fold returns and the accounts are printed.
Finish ==
    /\ pc = "next"
    /\ pc' = "done"
    /\ disputed' = None
    /\ UNCHANGED <<accounts, amounts, nrows, last, prev, constructed_clients,
                   applied_clients, shards, introduced,
                   charged_clients>>

Next == SkipRow \/ RunTx \/ NextRow \/ Finish

Spec == Init /\ [][Next]_vars

\* The fold on well-formed input, with the per-client States beside it.
ShardedSpec == ShardedInit /\ [][Next]_vars


(* ------------------------------ the claims ---------------------------- *)

\* The row just handled converted to a transaction of this kind.
Handled(kind) ==
    /\ pc = "ran"
    /\ last.some
    /\ last.val.tx.some
    /\ last.val.tx.val.tx_type.kind = kind

\* The transaction just handled, its fields, and the diagnostic it caused.
LastTx == last.val.tx.val
LastClient == LastTx.client_id
LastTxId == LastTx.tx_id
LastAmount == LastTx.tx_type.amount
LastDiag == last.val.diag

\* The account of the transaction's client before and after the row.
Before == AccountFor(prev.accounts, LastClient)
After == accounts[LastClient]

\* The amount recorded under the transaction's id before the row.
Known == LastTxId \in DOMAIN prev.amounts
Recorded == prev.amounts[LastTxId]

\* C1: in every reachable state every account has total = available + held.
C1_TotalIsAvailablePlusHeld ==
    \A c \in DOMAIN accounts :
        accounts[c].total = accounts[c].available + accounts[c].held

\* C1 witness: an account with funds held and funds available, after a
\* chargeback has locked it.
C1_Witness ==
    \E c \in DOMAIN accounts :
        /\ accounts[c].held # 0
        /\ accounts[c].available # 0
        /\ accounts[c].locked

\* C2: Deposit(a) with tx id t for client c adds a to available and to total,
\* leaves held and locked alone and records amounts[t] = a, whatever the sign
\* of a; on the empty ledger the account becomes {a, 0, a, unlocked}.
C2_Deposit ==
    Handled("Deposit") =>
        /\ After = [available |-> Before.available + LastAmount,
                    held |-> Before.held,
                    total |-> Before.total + LastAmount,
                    locked |-> Before.locked]
        /\ LastTxId \in DOMAIN amounts
        /\ amounts[LastTxId] = LastAmount
        /\ prev = State_default =>
             After = [available |-> LastAmount, held |-> 0,
                      total |-> LastAmount, locked |-> FALSE]

\* C2 witness: a deposit of a negative amount onto an account that holds
\* funds has been applied.
C2_Witness ==
    /\ Handled("Deposit")
    /\ LastAmount < 0
    /\ Before.held # 0
    /\ After.available = Before.available + LastAmount

\* C3: Withdrawal(a) with available < a is dropped: the account is as before
\* (all zero and unlocked when it did not exist), amounts is unchanged and
\* gets no entry for the tx id.  Only available is compared.
C3_WithdrawalInsufficient ==
    (Handled("Withdrawal") /\ Before.available < LastAmount) =>
        /\ After = Before
        /\ amounts = prev.amounts
        /\ ~Known => LastTxId \notin DOMAIN amounts
        /\ LastDiag = "insufficient"

\* C3 witness: a withdrawal was dropped although total covers it, because
\* the funds are held.
C3_Witness ==
    /\ Handled("Withdrawal")
    /\ Before.available < LastAmount
    /\ Before.total >= LastAmount
    /\ Before.held > 0
    /\ LastDiag = "insufficient"

\* C4: Withdrawal(a) with available >= a subtracts a from available and from
\* total, leaves held and locked alone, records amounts[t] = -a and leaves
\* every other entry of amounts alone.
C4_WithdrawalApplied ==
    (Handled("Withdrawal") /\ Before.available >= LastAmount) =>
        /\ After = [available |-> Before.available - LastAmount,
                    held |-> Before.held,
                    total |-> Before.total - LastAmount,
                    locked |-> Before.locked]
        /\ DOMAIN amounts = DOMAIN prev.amounts \cup {LastTxId}
        /\ amounts[LastTxId] = -LastAmount
        /\ \A t \in DOMAIN prev.amounts \ {LastTxId} :
               amounts[t] = prev.amounts[t]
        /\ LastDiag = "none"

\* C4 witness: a withdrawal of exactly the available funds was applied while
\* another tx id was on record.
C4_Witness ==
    /\ Handled("Withdrawal")
    /\ LastAmount > 0
    /\ Before.available = LastAmount
    /\ After.available = 0
    /\ DOMAIN prev.amounts \ {LastTxId} # {}

\* C5: Dispute on a recorded tx id with amount r subtracts r from available,
\* adds r to held and leaves total, locked and amounts alone.
C5_Dispute ==
    (Handled("Dispute") /\ Known) =>
        /\ After = [available |-> Before.available - Recorded,
                    held |-> Before.held + Recorded,
                    total |-> Before.total,
                    locked |-> Before.locked]
        /\ amounts = prev.amounts

\* C5 witness: a dispute moved a deposit's amount from available to held.
C5_Witness ==
    /\ Handled("Dispute")
    /\ Known
    /\ Recorded > 0
    /\ After.held = Recorded
    /\ After.available = Before.available - Recorded

\* The row handled before this one was an applied dispute by the same client
\* on the same tx id as the transaction just handled.
FollowsDispute ==
    /\ disputed.some
    /\ disputed.val.client_id = LastClient
    /\ disputed.val.tx_id = LastTxId

\* The account of that client before the dispute.
BeforeDispute == disputed.val.before

\* C6: Dispute then Resolve on the same recorded tx id by the same client is
\* a round trip: after the Resolve available and held are what they were
\* before the Dispute, and total and locked are the same before the Dispute,
\* between the two and after the Resolve.
C6_DisputeResolveRoundTrip ==
    (Handled("Resolve") /\ FollowsDispute) =>
        /\ After.available = BeforeDispute.available
        /\ After.held = BeforeDispute.held
        /\ Before.total = BeforeDispute.total
        /\ After.total = BeforeDispute.total
        /\ Before.locked = BeforeDispute.locked
        /\ After.locked = BeforeDispute.locked

\* C6 witness: a resolve has undone a dispute that had moved all the funds
\* of an account from available to held.
C6_Witness ==
    /\ Handled("Resolve")
    /\ FollowsDispute
    /\ BeforeDispute.available > 0
    /\ Before.available = 0
    /\ Before.held = BeforeDispute.available
    /\ After = BeforeDispute

\* C7: Chargeback on a recorded tx id with amount r subtracts r from held and
\* from total, locks the account and leaves available alone; when it follows
\* a Dispute on the same id by the same client, held is back at its value
\* before the Dispute (0 when there was none held) and total is lower by the
\* recorded amount (the deposit's A).
C7_Chargeback ==
    (Handled("Chargeback") /\ Known) =>
        /\ After = [available |-> Before.available,
                    held |-> Before.held - Recorded,
                    total |-> Before.total - Recorded,
                    locked |-> TRUE]
        /\ FollowsDispute =>
             /\ After.available = BeforeDispute.available - Recorded
             /\ After.held = BeforeDispute.held
             /\ After.total = BeforeDispute.total - Recorded
             /\ BeforeDispute.held = 0 => After.held = 0

\* C7 witness: deposit of 1.5, dispute, chargeback from the empty ledger:
\* the account ends all zero and locked.
C7_Witness ==
    /\ Handled("Chargeback")
    /\ FollowsDispute
    /\ nrows = 3
    /\ Recorded = ParseDecimal(<<"1", ".", "5">>).val
    /\ BeforeDispute = [available |-> Recorded, held |-> 0,
                        total |-> Recorded, locked |-> FALSE]
    /\ Before = [available |-> 0, held |-> Recorded,
                 total |-> Recorded, locked |-> FALSE]
    /\ After = [available |-> 0, held |-> 0, total |-> 0, locked |-> TRUE]

\* C8: a Dispute, Resolve or Chargeback whose tx id is not in amounts when it
\* is applied leaves the client's account and amounts as they were; a
\* Chargeback on an unknown id does not lock the account.
C8_UnknownReference ==
    ((Handled("Dispute") \/ Handled("Resolve") \/ Handled("Chargeback"))
        /\ ~Known) =>
        /\ After = Before
        /\ amounts = prev.amounts
        /\ LastDiag = "unknown"

\* C8 witness: a chargeback on an unknown id was handled for an unlocked
\* account with funds, while another id was on record.
C8_Witness ==
    /\ Handled("Chargeback")
    /\ ~Known
    /\ prev.amounts # EmptyMap
    /\ Before.available # 0
    /\ ~After.locked

\* A raw row that fails construction: an error of the reader, or a deposit or
\* withdrawal whose amount is missing or is no decimal number.
Malformed(row) ==
    \/ ~row.ok
    \/ /\ row.tx_row_type \in MoneyTypes
       /\ \/ ~row.amount.some
          \/ ~ParseDecimal(row.amount.val).some

MalformedRows == { row \in Rows : Malformed(row) }

\* C9: a row that fails construction is skipped: no transaction reaches
\* run_tx, accounts (its key set too) and amounts are as before, and the
\* fold goes on.  A dispute, resolve or chargeback row constructs with or
\* without an amount.
C9_MalformedSkipped ==
    (pc = "ran" /\ last.some) =>
        /\ last.val.row \in MalformedRows =>
             /\ ~last.val.tx.some
             /\ Cur = prev
             /\ last.val.diag = "convert"
        /\ (last.val.row.ok /\ last.val.row.tx_row_type \in RefTypes) =>
             /\ last.val.tx.some
             /\ LastClient = last.val.row.client_id
             /\ LastTxId = last.val.row.tx_id

\* C9 witness: the second row, a dispute without amount, was handled after
\* a first row that changed nothing and created no account.
C9_Witness ==
    /\ Handled("Dispute")
    /\ ~last.val.row.amount.some
    /\ nrows = 2
    /\ prev = State_default

\* C10: the key set of accounts is the set of client ids of the constructed
\* transactions, applied or dropped; a client whose transactions were all
\* dropped has zero balances and is unlocked.
C10_AccountKeys ==
    /\ DOMAIN accounts = constructed_clients
    /\ \A c \in constructed_clients \ applied_clients :
           accounts[c] = Account_default

\* C10 witness: the fold has finished after MaxRows rows with an all-zero
\* account for a client whose transactions were all dropped and no account
\* for another client.
C10_Witness ==
    /\ pc = "done"
    /\ nrows = MaxRows
    /\ \E c \in constructed_clients \ applied_clients :
           accounts[c] = Account_default
    /\ Clients \ DOMAIN accounts # {}

\* The State before the row with the locked flag of the transaction's client
\* flipped.
PrevFlipped ==
    [prev EXCEPT !.accounts =
        Insert(prev.accounts, LastClient, [Before EXCEPT !.locked = ~@])]

\* C11: locked never blocks or alters processing: the transaction just
\* handled leaves the same available, held, total and amounts when it is
\* applied to the State that differs only in the client's locked flag; a
\* deposit or a covered withdrawal on a locked account is applied.
C11_LockedIsNotConsulted ==
    []((pc = "ran" /\ last.some /\ last.val.tx.some) =>
        LET flipped == run_tx(PrevFlipped, LastTx)
            other == flipped.accounts[LastClient]
        IN  /\ other.available = After.available
            /\ other.held = After.held
            /\ other.total = After.total
            /\ flipped.amounts = amounts
            /\ flipped.diag = LastDiag
            /\ (Handled("Deposit") /\ Before.locked) =>
                 After.available = Before.available + LastAmount
            /\ (Handled("Withdrawal") /\ Before.locked
                   /\ Before.available >= LastAmount) =>
                 After.available = Before.available - LastAmount)

\* C11 witness: a withdrawal has taken funds out of an account that a
\* chargeback had locked.
C11_Witness ==
    /\ Handled("Withdrawal")
    /\ Before.locked
    /\ LastAmount > 0
    /\ LastDiag = "none"
    /\ After.available = Before.available - LastAmount

\* The step handles a row that converted to a dispute, resolve or chargeback.
HandlesReference ==
    /\ pc' = "ran"
    /\ last'.some
    /\ last'.val.tx.some
    /\ last'.val.tx.val.tx_type.kind \in {"Dispute", "Resolve", "Chargeback"}

\* C12: amounts is append-only in its keys: no step removes a tx id, so a
\* recorded id stays on record for the rest of the run; a dispute, resolve or
\* chargeback adds, removes and changes no entry, and is not dropped as
\* unknown when its id is on record.
C12_AmountsAppendOnly ==
    [][ /\ DOMAIN amounts \subseteq DOMAIN amounts'
        /\ HandlesReference =>
             /\ amounts' = amounts
             /\ last'.val.tx.val.tx_id \in DOMAIN amounts =>
                  last'.val.diag = "none" ]_vars

\* C12 witness: the third row, a chargeback after a dispute on a tx id
\* recorded by the first row, was applied, and the id is still on record.
C12_Witness ==
    /\ Handled("Chargeback")
    /\ FollowsDispute
    /\ nrows = 3
    /\ LastDiag = "none"
    /\ LastTxId \in DOMAIN amounts
    /\ amounts[LastTxId] = Recorded

\* What the fold has done with the row just handled: nothing when into_tx
\* dropped the row, else one run_tx of the transaction into_tx made of it.
HandledOnce ==
    IF last.val.tx.some
    THEN /\ [row |-> last.val.row, tx |-> LastTx] \in ConvertedRows
         /\ run_tx(prev, LastTx) =
              [accounts |-> accounts, amounts |-> amounts, diag |-> LastDiag]
    ELSE /\ last.val.row \in SkippedRows
         /\ Cur = prev

\* What is left of the run: the rows not yet read, and within a row the
\* position of the fold.
Remaining ==
    3 * (MaxRows - nrows)
      + (CASE pc = "ran" -> 4 [] pc = "next" -> 2 [] pc = "done" -> 0)

\* C13: no row makes the run abort, and the run terminates: every row read
\* is handled once, in the order read (skipped when it does not convert, run
\* through run_tx once when it does, whatever diagnostic that logs); the fold
\* ends only when the reader is exhausted; until then a step is always
\* possible, and every step brings the end nearer.
C13_NeverAbortsAndTerminates ==
    /\ [](/\ (pc = "ran") => (last.some /\ HandledOnce)
          /\ (pc = "done") => ~last.some
          /\ pc = "done" \/ ENABLED NextRow \/ ENABLED Finish
          /\ Remaining >= 0)
    /\ [][Remaining' < Remaining]_vars

\* C13 witness: the fold has finished after MaxRows rows, among them a
\* dropped transaction (an account with no applied transaction) and an
\* applied one.
C13_Witness ==
    /\ pc = "done"
    /\ nrows = MaxRows
    /\ constructed_clients \ applied_clients # {}
    /\ applied_clients # {}

\* C15: on well-formed input every client's account after the whole stream
\* is the account the fold reaches, from the empty State, on that client's
\* transactions alone; a client has an account in the one exactly when it
\* has one in the other.
C15_ShardedByClient ==
    shards.some =>
        \A c \in Clients :
            /\ (c \in DOMAIN accounts) <=> (c \in DOMAIN shards.val[c].accounts)
            /\ c \in DOMAIN accounts =>
                 accounts[c] = shards.val[c].accounts[c]

\* C15 witness: the fold has finished on a well-formed stream of MaxRows
\* rows for two clients, one of them with a dispute applied.
C15_Witness ==
    /\ shards.some
    /\ pc = "done"
    /\ nrows = MaxRows
    /\ Cardinality(DOMAIN accounts) >= 2
    /\ \E c \in DOMAIN accounts :
           /\ accounts[c].held > 0
           /\ shards.val[c].accounts[c].held = accounts[c].held

\* C16: a Dispute, Resolve or Chargeback is applied exactly when its tx id
\* is on record, whatever was done to that id before: a Dispute right after
\* an applied Dispute of the same id moves the recorded amount a second time,
\* a Resolve or Chargeback on an account that holds nothing drives held to
\* minus the recorded amount, and a Dispute on a locked account (one that has
\* had a Chargeback) moves the recorded amount like any other.
C16_ReferencesAnyNumberAnyOrder ==
    []((pc = "ran" /\ last.some /\ last.val.tx.some
        /\ LastTx.tx_type.kind \in {"Dispute", "Resolve", "Chargeback"}) =>
        /\ (LastDiag = "none") <=> Known
        /\ (~Known) => After = Before
        /\ (Handled("Dispute") /\ Known) =>
             /\ After.available = Before.available - Recorded
             /\ After.held = Before.held + Recorded
        /\ (Handled("Dispute") /\ FollowsDispute) =>
             /\ LastDiag = "none"
             /\ After.available = BeforeDispute.available - 2 * Recorded
             /\ After.held = BeforeDispute.held + 2 * Recorded
        /\ (~Handled("Dispute") /\ Known /\ Before.held = 0) =>
             /\ LastDiag = "none"
             /\ After.held = 0 - Recorded
        /\ (Handled("Chargeback") /\ Known) => After.locked)

\* C16 witness: the third row is the second of two Disputes in a row by one
\* client on its deposit, and twice the deposit is now held.
C16_Witness ==
    /\ Handled("Dispute")
    /\ FollowsDispute
    /\ nrows = MaxRows
    /\ Recorded > 0
    /\ BeforeDispute.held = 0
    /\ BeforeDispute.available = Recorded
    /\ After.held = 2 * Recorded
    /\ After.available = 0 - Recorded

\* C17: a dispute moves the recorded, signed amount back.  Once a deposit
\* or withdrawal is applied, the amount on record for its tx id is what the
\* transaction added to available (a for a deposit of a, -a for a withdrawal
\* of a), and a dispute of that id by the same client takes that much off
\* available again and puts it on held: a disputed deposit of a gives
\* available - a and held + a, a disputed withdrawal of a gives available + a
\* and held - a, and total stays in both cases.  Every dispute the fold runs
\* on a recorded id moves the recorded amount in this way.
C17_DisputeUsesSignedAmount ==
    []((pc = "ran" /\ last.some /\ last.val.tx.some) =>
        /\ (LastTx.tx_type.kind \in {"Deposit", "Withdrawal"}
            /\ LastDiag = "none") =>
             LET dispute == run_tx(Cur, MkTx("Dispute", LastClient, LastTxId))
                 disputed_account == dispute.accounts[LastClient]
                 moved == After.available - Before.available
             IN  /\ moved = IF Handled("Deposit")
                            THEN LastAmount
                            ELSE 0 - LastAmount
                 /\ amounts[LastTxId] = moved
                 /\ dispute.diag = "none"
                 /\ disputed_account.available = After.available - moved
                 /\ disputed_account.held = After.held + moved
                 /\ disputed_account.total = After.total
                 /\ disputed_account.locked = After.locked
        /\ (Handled("Dispute") /\ Known) =>
             /\ Before.available - After.available = Recorded
             /\ After.held - Before.held = Recorded
             /\ After.total = Before.total)

\* C17 witness: the Dispute of an applied withdrawal of 1.5, the only
\* transaction that puts minus 1.5 on record: available went up by 1.5 and
\* held went down by 1.5 below zero.
C17_Witness ==
    LET a == ParseDecimal(<<"1", ".", "5">>).val
    IN  /\ Handled("Dispute")
        /\ Known
        /\ Recorded = 0 - a
        /\ After.available = Before.available + a
        /\ After.held = Before.held - a
        /\ After.held < 0
        /\ After.total = Before.total

\* C18: a tx id already on record is no obstacle to a deposit or withdrawal.
\* A Deposit(a) on a recorded id adds a to available and total and puts a on
\* record in place of the old amount; a Withdrawal(a) on a recorded id that
\* the funds cover subtracts a and puts -a on record; a Dispute of the id by
\* the same client would then move the new amount.  A Withdrawal dropped for
\* insufficient funds leaves the old amount on record.
C18_DuplicateIdsOverwrite ==
    []((pc = "ran" /\ last.some /\ last.val.tx.some /\ Known
        /\ LastTx.tx_type.kind \in {"Deposit", "Withdrawal"}) =>
        LET new == IF Handled("Deposit") THEN LastAmount ELSE 0 - LastAmount
            later == run_tx(Cur, MkTx("Dispute", LastClient, LastTxId))
        IN  /\ Handled("Deposit") => LastDiag = "none"
            /\ Handled("Withdrawal") =>
                 ((LastDiag = "none") <=> (Before.available >= LastAmount))
            /\ DOMAIN amounts = DOMAIN prev.amounts
            /\ LastDiag = "none" =>
                 /\ After.available = Before.available + new
                 /\ After.total = Before.total + new
                 /\ amounts[LastTxId] = new
                 /\ later.accounts[LastClient].held = After.held + new
            /\ LastDiag # "none" =>
                 /\ After = Before
                 /\ amounts[LastTxId] = Recorded
                 /\ later.accounts[LastClient].held = After.held + Recorded)

\* C18 witness: a deposit was applied on the tx id of an earlier deposit of
\* another amount, and its own amount is on record now.
C18_Witness ==
    /\ Handled("Deposit")
    /\ Known
    /\ Recorded > 0
    /\ LastAmount > 0
    /\ Recorded # LastAmount
    /\ Before.available = Recorded
    /\ After.available = Recorded + LastAmount
    /\ amounts[LastTxId] = LastAmount

\* C19: locked is set by chargeback alone and never reset.  In every state
\* an account is locked exactly when a Chargeback of a recorded tx id has
\* been applied to it earlier in the run, and no step unlocks or removes an
\* account that is locked.
C19_LockedMonotonic ==
    /\ [](/\ charged_clients \subseteq DOMAIN accounts
          /\ \A c \in DOMAIN accounts :
                 accounts[c].locked <=> (c \in charged_clients))
    /\ [][\A c \in DOMAIN accounts :
              accounts[c].locked =>
                  (c \in DOMAIN accounts' /\ accounts'[c].locked)]_vars

\* C19 witness: a Resolve of a recorded tx id was applied to an account that
\* a Chargeback had locked, and the account is locked still.
C19_Witness ==
    /\ Handled("Resolve")
    /\ Known
    /\ LastDiag = "none"
    /\ Before.locked
    /\ After.locked
    /\ LastClient \in charged_clients

\* C20: a transaction touches no account but the one of its own client id.
\* After a row the accounts are those from before the row plus, for a
\* transaction, the one of its client; every other account has the
\* available, held, total and locked it had.  That holds for a Dispute,
\* Resolve or Chargeback of a tx id another client's deposit or withdrawal
\* put on record: the recorded amount moves on the account of the client
\* named in the transaction.
C20_OnlyOwnAccountChanges ==
    []((pc = "ran" /\ last.some) =>
        IF last.val.tx.some
        THEN /\ DOMAIN accounts = DOMAIN prev.accounts \cup {LastClient}
             /\ \A c \in DOMAIN accounts \ {LastClient} :
                    accounts[c] = prev.accounts[c]
             /\ (LastTx.tx_type.kind \in {"Dispute", "Resolve", "Chargeback"}
                 /\ Known) =>
                  LET r == IF Handled("Dispute") THEN Recorded
                                                 ELSE 0 - Recorded
                  IN  After.held = Before.held + r
        ELSE accounts = prev.accounts)

\* C20 witness: a client without an account disputed the tx id of another
\* client's deposit; the recorded amount went from its new account's
\* available to its held, and the depositor's account is as it was.
C20_Witness ==
    /\ Handled("Dispute")
    /\ Known
    /\ Recorded > 0
    /\ LastClient \notin DOMAIN prev.accounts
    /\ After.available = 0 - Recorded
    /\ After.held = Recorded
    /\ \E c \in DOMAIN prev.accounts :
           /\ c # LastClient
           /\ prev.accounts[c].available = Recorded
           /\ accounts[c] = prev.accounts[c]

====
